---------------------------- MODULE Spec2Model ----------------------------
(***************************************************************************)
(* The /api/query request handlers of the NLWeb retrieval service:         *)
(*   "stream"   src/server.js 32-106   (embedding, cosine selection,       *)
(*              OpenAI streamed completion relayed with for-await)         *)
(*   "buffered" src/server.js 159-288  (same selection, one completed      *)
(*              reply, suggestion extraction, JSON result)                 *)
(*   "sse"      src/server.cjs 17-222  (lexical selection, Claude          *)
(*              server-sent events relayed by stream event listeners)      *)
(*   "legacy"   src/unnamed/part_000 25-89 (single query field, T = 0.5)   *)
(*   "reader"   src/unnamed/part_002 163-260 (cosine selection, Claude     *)
(*              body relayed with reader.read())                           *)
(*   "initial"  src/unnamed/part_002 32-103 (the "stream" handler with     *)
(*              another system message)                                    *)
(* JavaScript strings are TLA+ strings.  A long text is a rope: a sequence *)
(* of segments [text, pad], the string text followed by pad filler         *)
(* characters that contain no letter, no whitespace and no bracket.        *)
(* A similarity score num/sqrt(den) is the record [num, den] and is        *)
(* compared exactly; den = 0 is the quotient 0/0, JavaScript's NaN.        *)
(***************************************************************************)
EXTENDS Integers, Sequences, FiniteSets, TLC

(***************************************************************************)
(* Bounds of the model.                                                    *)
(***************************************************************************)
MaxDocs == 5
MaxTurns == 2
MaxFrags == 2
\* the corpora of the lexical selection leave out at most MaxRemoved passages
MaxRemoved == 2
\* the network hands over the first ChunkCut bytes in flight, or all of them
ChunkCut == 30

(***************************************************************************)
(* JavaScript values that may be absent.                                   *)
(***************************************************************************)
Undefined == [kind |-> "undefined"]
Str(s) == [kind |-> "string", value |-> s]
Arr(items) == [kind |-> "array", items |-> items]
\* a string held as a rope (see below)
Text(r) == [kind |-> "text", value |-> r]
\* a value that is neither a string nor an array: a number, a plain object
Obj == [kind |-> "object"]

(***************************************************************************)
(* Strings.                                                                *)
(***************************************************************************)
UpperLetters == "ABCDEFGHIJKLMNOPQRSTUVWXYZ"
LowerLetters == "abcdefghijklmnopqrstuvwxyz"

CharAt(s, i) == SubSeq(s, i, i)

LowerChar(c) ==
  IF \E i \in 1..Len(UpperLetters) : CharAt(UpperLetters, i) = c
  THEN CharAt(LowerLetters, CHOOSE i \in 1..Len(UpperLetters) : CharAt(UpperLetters, i) = c)
  ELSE c

RECURSIVE toLowerCase(_)
toLowerCase(s) ==
  IF s = "" THEN ""
  ELSE LowerChar(CharAt(s, 1)) \o toLowerCase(SubSeq(s, 2, Len(s)))

\* String.prototype.includes
StrIncludes(s, sub) ==
  \E i \in 1..(Len(s) - Len(sub) + 1) : SubSeq(s, i, i + Len(sub) - 1) = sub

\* String.prototype.startsWith
startsWith(s, prefix) == Len(s) >= Len(prefix) /\ SubSeq(s, 1, Len(prefix)) = prefix

\* Array.prototype.includes
ArrIncludes(arr, x) == \E i \in 1..Len(arr) : arr[i] = x

IsSpace(c) == c \in {" ", "\n", "\t"}

\* s.split(/\s+/): the pieces between the maximal whitespace runs
RECURSIVE SplitWsFrom(_, _, _)
SplitWsFrom(s, i, cur) ==
  IF i > Len(s) THEN <<cur>>
  ELSE IF IsSpace(CharAt(s, i))
       THEN IF i > 1 /\ IsSpace(CharAt(s, i - 1))
            THEN SplitWsFrom(s, i + 1, cur)
            ELSE <<cur>> \o SplitWsFrom(s, i + 1, "")
       ELSE SplitWsFrom(s, i + 1, cur \o CharAt(s, i))

SplitWs(s) == SplitWsFrom(s, 1, "")

\* s.split('\n')
RECURSIVE SplitLinesFrom(_, _, _)
SplitLinesFrom(s, i, cur) ==
  IF i > Len(s) THEN <<cur>>
  ELSE IF CharAt(s, i) = "\n"
       THEN <<cur>> \o SplitLinesFrom(s, i + 1, "")
       ELSE SplitLinesFrom(s, i + 1, cur \o CharAt(s, i))

SplitLines(s) == SplitLinesFrom(s, 1, "")

\* (s.match(new RegExp(word, 'g')) || []).length for a word of letters:
\* the non-overlapping occurrences of word in s, scanning from the left
RECURSIVE CountMatchesFrom(_, _, _)
CountMatchesFrom(s, word, i) ==
  IF word = "" \/ i + Len(word) - 1 > Len(s) THEN 0
  ELSE IF SubSeq(s, i, i + Len(word) - 1) = word
       THEN 1 + CountMatchesFrom(s, word, i + Len(word))
       ELSE CountMatchesFrom(s, word, i + 1)

CountMatches(s, word) == CountMatchesFrom(s, word, 1)

(***************************************************************************)
(* Ropes.                                                                  *)
(***************************************************************************)
Seg(s) == [text |-> s, pad |-> 0]
Rope(s) == <<Seg(s)>>

RECURSIVE RopeLen(_)
RopeLen(r) ==
  IF r = <<>> THEN 0
  ELSE Len(Head(r).text) + Head(r).pad + RopeLen(Tail(r))

\* r.slice(0, n)
RECURSIVE RopeSlice(_, _)
RopeSlice(r, n) ==
  IF r = <<>> \/ n <= 0 THEN <<>>
  ELSE LET h == Head(r)
           hl == Len(h.text) + h.pad
       IN IF hl <= n THEN <<h>> \o RopeSlice(Tail(r), n - hl)
          ELSE IF n <= Len(h.text) THEN <<[text |-> SubSeq(h.text, 1, n), pad |-> 0]>>
          ELSE <<[text |-> h.text, pad |-> n - Len(h.text)]>>

\* parts.join(sep) for a sequence of ropes
RECURSIVE RopeJoin(_, _)
RopeJoin(parts, sep) ==
  IF parts = <<>> THEN <<>>
  ELSE IF Len(parts) = 1 THEN Head(parts)
  ELSE Head(parts) \o <<Seg(sep)>> \o RopeJoin(Tail(parts), sep)

\* !v for a value that is undefined, a string or a text
Falsy(v) ==
  \/ v.kind = "undefined"
  \/ (v.kind = "string" /\ v.value = "")
  \/ (v.kind = "text" /\ RopeLen(v.value) = 0)

\* the letters of a rope, lower-cased (the filler has none)
RECURSIVE RopeLowerText(_)
RopeLowerText(r) ==
  IF r = <<>> THEN ""
  ELSE toLowerCase(Head(r).text) \o (IF Head(r).pad > 0 THEN "." ELSE "") \o RopeLowerText(Tail(r))


(***************************************************************************)
(* Similarity scores.                                                      *)
(***************************************************************************)
RECURSIVE SumOver(_, _)
\* the sum of f[i] for i in S
SumOver(f, S) ==
  IF S = {} THEN 0
  ELSE LET i == CHOOSE j \in S : TRUE IN f[i] + SumOver(f, S \ {i})

\* the number num / sqrt(den); den = 0 only together with num = 0: NaN
Score(num, den) == [num |-> num, den |-> den]
\* the decimal literal p/q
Lit(p, q) == Score(p, q * q)

IsNaN(s) == s.den = 0

\* cosineSimilarity(a, b): dot / (normA * normB), with normA * normB = sqrt(|a|^2 |b|^2)
cosineSimilarity(a, b) ==
  LET dot == SumOver([i \in 1..Len(a) |-> a[i] * b[i]], 1..Len(a))
      normA2 == SumOver([i \in 1..Len(a) |-> a[i] * a[i]], 1..Len(a))
      normB2 == SumOver([i \in 1..Len(b) |-> b[i] * b[i]], 1..Len(b))
  IN Score(dot, normA2 * normB2)

\* s > t in IEEE arithmetic: false when either side is NaN
ScoreGT(s, t) ==
  /\ ~IsNaN(s)
  /\ ~IsNaN(t)
  /\ IF s.num >= 0 /\ t.num < 0 THEN TRUE
     ELSE IF s.num < 0 /\ t.num >= 0 THEN FALSE
     ELSE IF s.num >= 0 THEN s.num * s.num * t.den > t.num * t.num * s.den
     ELSE s.num * s.num * t.den < t.num * t.num * s.den

\* the sign of (a, b) => b.score - a.score as the sort reads it (NaN counts as +0)
CompareScore(a, b) ==
  IF ScoreGT(b.score, a.score) THEN 1
  ELSE IF ScoreGT(a.score, b.score) THEN -1
  ELSE 0

\* the sign of (a, b) => b.score - a.score for the integer keyword scores
CompareCount(a, b) ==
  IF b.score > a.score THEN 1 ELSE IF b.score < a.score THEN -1 ELSE 0

(***************************************************************************)
(* Array.prototype.sort.  With a consistent comparator the sort is stable. *)
(* With an inconsistent one (NaN compares equal to two scores that differ) *)
(* ECMAScript leaves the order implementation-defined: any permutation.    *)
(***************************************************************************)
\* the comparator handed to sort: on cosine scores, or on keyword counts
Compare(cmp, a, b) == IF cmp = "count" THEN CompareCount(a, b) ELSE CompareScore(a, b)

Consistent(seq, cmp) ==
  \A i, j, k \in 1..Len(seq) :
    /\ (Compare(cmp, seq[i], seq[j]) = 0 /\ Compare(cmp, seq[j], seq[k]) = 0)
         => Compare(cmp, seq[i], seq[k]) = 0
    /\ (Compare(cmp, seq[i], seq[j]) < 0 /\ Compare(cmp, seq[j], seq[k]) < 0)
         => Compare(cmp, seq[i], seq[k]) < 0
    /\ (Compare(cmp, seq[i], seq[j]) > 0 /\ Compare(cmp, seq[j], seq[k]) > 0)
         => Compare(cmp, seq[i], seq[k]) > 0

\* the place of seq[i] in the stable order
StableRank(seq, cmp, i) ==
  1 + Cardinality({j \in 1..Len(seq) :
                     \/ Compare(cmp, seq[j], seq[i]) < 0
                     \/ (Compare(cmp, seq[j], seq[i]) = 0 /\ j < i)})

StableSort(seq, cmp) ==
  [k \in 1..Len(seq) |-> seq[CHOOSE i \in 1..Len(seq) : StableRank(seq, cmp, i) = k]]

\* the orders seq.sort(...) may leave
SortResults(seq, cmp) ==
  IF Consistent(seq, cmp)
  THEN {StableSort(seq, cmp)}
  ELSE {[k \in 1..Len(seq) |-> seq[p[k]]] : p \in Permutations(1..Len(seq))}

\* arr.slice(0, n)
Slice(arr, n) == SubSeq(arr, 1, IF Len(arr) < n THEN Len(arr) ELSE n)



(***************************************************************************)
(* Program constants.                                                      *)
(***************************************************************************)
TopK == 4
FallbackK == 2
LexicalTopK == 5
ContextCap == 8000
TagWeight == 10
ContentWeight == 2
MinWordLength == 2

Handlers == {"stream", "buffered", "sse", "legacy", "reader"}
AllHandlers == Handlers \cup {"initial"}
CosineHandlers == {"stream", "buffered", "legacy", "reader", "initial"}

\* doc.score > 0.4, and > 0.5 in the legacy handler
Threshold(h) == IF h = "legacy" THEN Lit(1, 2) ELSE Lit(2, 5)

(***************************************************************************)
(* The corpus artifact embedded_content.json: passages                     *)
(* { content, vector, tags? }.  The corpora of the model are the           *)
(* subsequences of Master with at most MaxDocs passages.                   *)
(***************************************************************************)
Doc(text, pad, vector, tags) ==
  [content |-> <<[text |-> text, pad |-> pad]>>, vector |-> vector, tags |-> tags]

Master ==
  << Doc("Banking automation for banks", 2972, <<1, 0>>, Arr(<<"banking">>)),
     Doc("Retail store analytics", 4978, <<1, 1>>, Arr(<<"retail">>)),
     Doc("Loans for retail banking", 0, <<0, 1>>, Arr(<<"Banking", "Retail">>)),
     Doc("About us", 0, <<0, 0>>, Undefined),
     Doc("Credit scoring", 3986, <<2, 0>>, Arr(<<"banking", "finance">>)),
     Doc("Investment desk", 0, <<1, 2>>, Arr(<<"investment-banking">>)),
     Doc("Claims handling", 0, <<3, 1>>, Arr(<<"insurance">>)) >>

\* the members of the index set I in increasing order
Ascending(I) ==
  [k \in 1..Cardinality(I) |-> CHOOSE i \in I : Cardinality({j \in I : j < i}) = k - 1]

Corpora ==
  { [k \in 1..Cardinality(I) |-> Master[Ascending(I)[k]]] :
      I \in {J \in SUBSET (1..Len(Master)) : Cardinality(J) <= MaxDocs} }

QueryVectors == {<<1, 0>>, <<-1, 1>>, <<0, 0>>}

\* a corpus with more than five passages about banking
LexicalMaster ==
  Master \o << Doc("Bank accounts for banks and credit unions", 0, <<2, 1>>, Arr(<<"banking">>)),
               Doc("Finance news", 0, <<1, 3>>, Undefined) >>

\* the empty corpus, and LexicalMaster without at most MaxRemoved of its passages
LexicalCorpora ==
  {<<>>} \cup
  { [k \in 1..Cardinality(I) |-> LexicalMaster[Ascending(I)[k]]] :
      I \in {J \in SUBSET (1..Len(LexicalMaster)) :
               Cardinality(J) >= Len(LexicalMaster) - MaxRemoved} }

(***************************************************************************)
(* Cosine selection (server.js 51-67).                                     *)
(***************************************************************************)
\* doc.tags?.map(t => t.toLowerCase()).includes(industry.toLowerCase())
TagEquals(doc, industry) ==
  /\ doc.tags.kind = "array"
  /\ ArrIncludes([i \in 1..Len(doc.tags.items) |-> toLowerCase(doc.tags.items[i])],
                 toLowerCase(industry.value))

\* the filter without the tag requirement: a passage without tags passes
FilterByIndustry_KeepUntagged(docs, industry) ==
  SelectSeq(docs, LAMBDA doc : Falsy(industry) \/ doc.tags.kind # "array" \/ TagEquals(doc, industry))

\* the filter with a tag that only has to hold the category as a part
FilterByIndustry_PartOfTag(docs, industry) ==
  SelectSeq(docs, LAMBDA doc :
    \/ Falsy(industry)
    \/ /\ doc.tags.kind = "array"
       /\ \E i \in 1..Len(doc.tags.items) :
            StrIncludes(toLowerCase(doc.tags.items[i]), toLowerCase(industry.value)))

\* embeddedDocs.filter(doc => !industry || ...)
FilterByIndustry(docs, industry) ==
  SelectSeq(docs, LAMBDA doc : Falsy(industry) \/ TagEquals(doc, industry))

\* .map(doc => ({ ...doc, score: cosineSimilarity(doc.vector, queryVector) }))
ScoreDocs(docs, queryVector) ==
  [i \in 1..Len(docs) |->
     [content |-> docs[i].content, vector |-> docs[i].vector, tags |-> docs[i].tags,
      score |-> cosineSimilarity(docs[i].vector, queryVector)]]

\* the threshold branch with the slice taken before the sort
AboveThreshold_SliceFirst(scoredDocs, T) ==
  SortResults(Slice(SelectSeq(scoredDocs, LAMBDA doc : ScoreGT(doc.score, T)), TopK), "score")

\* scored.filter(doc => doc.score > T).sort(...).slice(0, 4)
AboveThreshold(scoredDocs, T) ==
  { Slice(r, TopK) :
      r \in SortResults(SelectSeq(scoredDocs, LAMBDA doc : ScoreGT(doc.score, T)), "score") }

\* the fallback without the sort: the first passages of the filtered set
FallbackTop_Unsorted(scoredDocs) == {Slice(scoredDocs, FallbackK)}

\* scored.sort(...).slice(0, 2)
FallbackTop(scoredDocs) ==
  { Slice(r, FallbackK) : r \in SortResults(scoredDocs, "score") }

\* the selection without the fallback branch
TopRelevant_NoFallback(scoredDocs, T) == AboveThreshold(scoredDocs, T)

\* the values topRelevant may take
TopRelevant(scoredDocs, T) ==
  IF \E r \in AboveThreshold(scoredDocs, T) : Len(r) # 0
  THEN AboveThreshold(scoredDocs, T)
  ELSE FallbackTop(scoredDocs)

\* the join with a placeholder text for an empty selection
JoinContents_Placeholder(docs) ==
  IF docs = <<>> THEN Rope("No context available.")
  ELSE RopeJoin([i \in 1..Len(docs) |-> docs[i].content], "\n\n")

\* topRelevant.map(doc => doc.content).join('\n\n')
JoinContents(docs) == RopeJoin([i \in 1..Len(docs) |-> docs[i].content], "\n\n")


(***************************************************************************)
(* Lexical selection (server.cjs 35-124).                                  *)
(***************************************************************************)
\* doc.tags?.some(tag => tag.toLowerCase().includes(industry.toLowerCase()))
TagContains(doc, industry) ==
  /\ doc.tags.kind = "array"
  /\ \E i \in 1..Len(doc.tags.items) :
       StrIncludes(toLowerCase(doc.tags.items[i]), toLowerCase(industry.value))

\* if (industry) filtered = filtered.filter(...)
FilterByIndustryLexical(docs, industry) ==
  IF Falsy(industry) THEN docs
  ELSE SelectSeq(docs, LAMBDA doc : TagContains(doc, industry))

stopWords ==
  <<"tell", "me", "about", "what", "is", "are", "the", "a", "an", "and", "or", "but",
    "in", "on", "at", "to", "for", "of", "with", "by">>

\* expansions[word], the empty sequence when the table has no such key
expansions(word) ==
  CASE word = "banks" -> <<"banking", "financial", "finance", "credit", "loan">>
    [] word = "bank" -> <<"banking", "financial", "finance", "credit", "loan">>
    [] word = "banking" -> <<"banks", "bank", "financial", "finance">>
    [] word = "healthcare" -> <<"health", "medical", "medicine", "hospital", "clinical">>
    [] word = "health" -> <<"healthcare", "medical", "medicine", "hospital">>
    [] word = "manufacturing" -> <<"production", "factory", "industrial", "assembly">>
    [] word = "insurance" -> <<"coverage", "policy", "claims", "underwriting">>
    [] word = "retail" -> <<"commerce", "shopping", "store", "sales">>
    [] word = "logistics" -> <<"supply", "chain", "shipping", "distribution">>
    [] word = "construction" -> <<"building", "contractor", "architecture">>
    [] word = "education" -> <<"school", "university", "learning", "academic">>
    [] word = "government" -> <<"public", "municipal", "federal", "state">>
    [] word = "energy" -> <<"power", "utility", "electricity", "oil", "gas">>
    [] word = "telecommunications" -> <<"telecom", "network", "communications">>
    [] OTHER -> <<>>

\* userInput.toLowerCase().split(/\s+/).filter(word => word.length > 2 && !stopWords.includes(word))
BaseWords(userInput) ==
  SelectSeq(SplitWs(RopeLowerText(userInput)),
            LAMBDA word : Len(word) > MinWordLength /\ ~ArrIncludes(stopWords, word))

\* queryWords.forEach(word => { if (expansions[word]) queryWords = [...queryWords, ...expansions[word]] })
RECURSIVE Expand(_, _)
Expand(words, acc) ==
  IF words = <<>> THEN acc
  ELSE Expand(Tail(words), acc \o expansions(Head(words)))

\* [...new Set(queryWords)]
RECURSIVE Dedupe(_, _)
Dedupe(words, acc) ==
  IF words = <<>> THEN acc
  ELSE Dedupe(Tail(words), IF ArrIncludes(acc, Head(words)) THEN acc ELSE Append(acc, Head(words)))

QueryWords(userInput) ==
  LET base == BaseWords(userInput) IN Dedupe(Expand(base, base), <<>>)

\* the keyword score of one passage (server.cjs 82-98)
KeywordScore(doc, queryWords) ==
  LET tagHits ==
        IF doc.tags.kind # "array" THEN 0
        ELSE Cardinality({ <<t, w>> \in (1..Len(doc.tags.items)) \X (1..Len(queryWords)) :
                             StrIncludes(toLowerCase(doc.tags.items[t]), queryWords[w]) })
      content == RopeLowerText(doc.content)
      matches == SumOver([w \in 1..Len(queryWords) |-> CountMatches(content, queryWords[w])],
                         1..Len(queryWords))
  IN TagWeight * tagHits + ContentWeight * matches

\* filtered.map(doc => { ...; return { doc, score } })
ScoreDocsLexical(docs, queryWords) ==
  [i \in 1..Len(docs) |-> [doc |-> docs[i], score |-> KeywordScore(docs[i], queryWords)]]

\* the relevant passages without the sort: in corpus order
RelevantDocs_Unsorted(scoredDocs) ==
  LET kept == SelectSeq(scoredDocs, LAMBDA item : item.score > 0)
  IN [i \in 1..Len(kept) |-> kept[i].doc]

\* scoredDocs.filter(item => item.score > 0).sort(...).map(item => item.doc)
RelevantDocs(scoredDocs) ==
  LET kept == StableSort(SelectSeq(scoredDocs, LAMBDA item : item.score > 0), "count")
  IN [i \in 1..Len(kept) |-> kept[i].doc]

\* the passages the context is built from (server.cjs 79-121)
LexicalSelection(filteredDocs, queryWords) ==
  LET relevantDocs == IF Len(queryWords) > 0
                      THEN RelevantDocs(ScoreDocsLexical(filteredDocs, queryWords))
                      ELSE <<>>
  IN Slice(IF Len(relevantDocs) > 0 THEN relevantDocs ELSE filteredDocs, LexicalTopK)

\* .map(doc => doc.content).join('\n\n').slice(0, 8000)
CappedContext(docs) == RopeSlice(JoinContents(docs), ContextCap)


(***************************************************************************)
(* Request bodies.                                                         *)
(***************************************************************************)
Turn(role, text) == [role |-> role, content |-> Rope(text)]

Dialogue ==
  << Turn("user", "Tell me about banks"),
     Turn("assistant", "Which area interests you?"),
     Turn("user", "retail loans") >>

\* the conversations of the model: the stretches of Dialogue of at most MaxTurns turns
Conversations ==
  { SubSeq(Dialogue, i, j) : <<i, j>> \in { <<a, b>> \in (1..Len(Dialogue)) \X (1..Len(Dialogue)) :
                                             a <= b /\ b - a < MaxTurns } }

MessagesValues ==
  {Undefined, Str("hi"), Obj, Arr(<<>>), Arr(<<Turn("user", "")>>)}
    \cup { Arr(c) : c \in Conversations }

Industries == {Undefined, Str(""), Str("Banking"), Str("bank")}

\* the legacy handler reads req.body.query, the others messages, industry and userName
Bodies(h) ==
  IF h = "legacy"
  THEN { [query |-> q, messages |-> Undefined, industry |-> Undefined, userName |-> Undefined] :
           q \in {Undefined, Text(Rope("Tell me about banks"))} }
  ELSE { [query |-> Undefined, messages |-> m, industry |-> i, userName |-> Undefined] :
           m \in MessagesValues, i \in Industries }

\* messages?.slice(-1) throws a TypeError: messages is neither undefined nor a
\* value with a slice method
SliceThrows(b) == b.messages.kind = "object"

\* messages?.slice(-1)[0]?.content
UserInput(b) ==
  IF b.messages.kind = "array" /\ Len(b.messages.items) > 0
  THEN Text(b.messages.items[Len(b.messages.items)].content)
  ELSE Undefined

\* !messages || !Array.isArray(messages) || !userInput
Invalid(b) == b.messages.kind # "array" \/ Falsy(UserInput(b))

\* the text handed to the embedding provider
EmbeddingInput(h, b) == IF h = "legacy" THEN b.query ELSE UserInput(b)

(***************************************************************************)
(* The completion request.                                                 *)
(***************************************************************************)
nameLine(userName) ==
  IF Falsy(userName) THEN <<>>
  ELSE Rope("The user's name is \"") \o Rope(userName.value) \o Rope("\". ")

systemPrompt(h, userName) ==
  CASE h = "stream" ->
         Rope("You are a conversational AI assistant for Digital Labor Factory. ")
           \o nameLine(userName) \o Rope("Never invent information.")
    [] h = "buffered" ->
         Rope("You are a conversational AI assistant for Digital Labor Factory. ")
           \o nameLine(userName)
           \o Rope("Never invent information. At the end of your reply, always include up to 3 short, clickable follow-up suggestions related to the question.")
    [] h = "reader" ->
         Rope("You are a conversational AI assistant for Digital Labor Factory. ")
           \o nameLine(userName) \o Rope("Never invent information.")
    [] h = "initial" ->
         Rope("You are a helpful AI agent representing our company, Digital Labor Factory. Always answer using only the provided context. Always respond in the same language the user uses. Never make up information.")
    [] h = "sse" ->
         Rope("You are Digital Labor Factory's AI assistant. You MUST ONLY use information from the CONTEXT section below. ")
           \o nameLine(userName)
    [] OTHER ->
         Rope("You are a helpful AI agent representing our company, Digital Labor Factory. Always answer using only the provided context.")

NoRequest == [system |-> Undefined, messages |-> <<>>]

\* the system message of part_002 81
InitialQuestion ==
  Rope("This is an initial question. Always ask a clarifying question before answering.")

\* the body of the call to the completion provider
CompletionRequest(h, b, chunks) ==
  CASE h = "stream" ->
         [system |-> Undefined,
          messages |-> << [role |-> "system", content |-> systemPrompt(h, b.userName)],
                          [role |-> "user", content |-> Rope("Context:\n") \o chunks] >>
                       \o b.messages.items]
    [] h = "initial" ->
         [system |-> Undefined,
          messages |-> << [role |-> "system", content |-> InitialQuestion],
                          [role |-> "user", content |-> Rope("Context:\n") \o chunks] >>
                       \o b.messages.items]
    [] h = "buffered" ->
         [system |-> Undefined,
          messages |-> << [role |-> "system", content |-> systemPrompt(h, b.userName)],
                          [role |-> "user",
                           content |-> Rope("Context:\n") \o chunks \o Rope("\n\n")
                                         \o UserInput(b).value] >>]
    [] h = "legacy" ->
         [system |-> Undefined,
          messages |-> << [role |-> "system", content |-> systemPrompt(h, b.userName)],
                          [role |-> "user",
                           content |-> Rope("Context:\n") \o chunks \o Rope("\n\nQuestion: ")
                                         \o b.query.value] >>]
    [] h = "reader" ->
         [system |-> Text(systemPrompt(h, b.userName)),
          messages |-> << [role |-> "user",
                           content |-> Rope("Context:\n") \o chunks \o Rope("\n\n")
                                         \o UserInput(b).value] >>]
    [] OTHER ->
         [system |-> Text(systemPrompt(h, b.userName)),
          messages |-> << [role |-> "user",
                           content |-> Rope("CONTEXT:\n") \o chunks \o Rope("\n\n---\n\nQUESTION: ")
                                         \o UserInput(b).value] >>]

(***************************************************************************)
(* The HTTP response.                                                      *)
(***************************************************************************)
\* no object has been sent
NoJson == [reply |-> Undefined, suggestions |-> <<>>]

NewResponse ==
  [status |-> 200, headersSent |-> FALSE, written |-> <<>>, ended |-> FALSE,
   sent |-> "", json |-> NoJson, lateWrites |-> 0, lateEnds |-> 0]

\* res.write(text)
ResWrite(r, text) ==
  IF r.ended THEN [r EXCEPT !.lateWrites = @ + 1]
  ELSE [r EXCEPT !.written = Append(@, text), !.headersSent = TRUE]

\* res.end()
ResEnd(r) ==
  IF r.ended THEN [r EXCEPT !.lateEnds = @ + 1]
  ELSE [r EXCEPT !.ended = TRUE, !.headersSent = TRUE]

\* res.status(code).send(text), res.status(code).json(value)
ResSend(r, code, text) ==
  [r EXCEPT !.status = code, !.sent = text, !.ended = TRUE, !.headersSent = TRUE]

\* res.status(code).send({ reply, suggestions })
ResSendJson(r, code, value) ==
  [r EXCEPT !.status = code, !.json = value, !.ended = TRUE, !.headersSent = TRUE]

ErrorText == "Error processing request."

\* the catch block of the handler
Catch(h, r) ==
  IF h = "sse"
  THEN IF ~r.headersSent
       THEN ResSend(r, 500, "{\"error\":\"Error processing request\"}")
       ELSE ResEnd(ResWrite(r, "\n\nError: Request processing failed."))
  ELSE IF h = "buffered"
  THEN ResSendJson(r, 500, [reply |-> Str(ErrorText), suggestions |-> <<>>])
  ELSE ResEnd(ResWrite(r, ErrorText))


(***************************************************************************)
(* The reply of the buffered handler: the text and the follow-up           *)
(* suggestions taken out of the provider's reply (server.js 235-281).      *)
(***************************************************************************)
\* the place of the first occurrence of sub in s at or after i; 0 when there is none
RECURSIVE IndexOfFrom(_, _, _)
IndexOfFrom(s, sub, i) ==
  IF i + Len(sub) - 1 > Len(s) THEN 0
  ELSE IF SubSeq(s, i, i + Len(sub) - 1) = sub THEN i
  ELSE IndexOfFrom(s, sub, i + 1)

\* s.split(/sep/) for a separator without special characters
RECURSIVE SplitOn(_, _)
SplitOn(s, sep) ==
  LET i == IndexOfFrom(s, sep, 1)
  IN IF i = 0 THEN <<s>>
     ELSE <<SubSeq(s, 1, i - 1)>> \o SplitOn(SubSeq(s, i + Len(sep), Len(s)), sep)

\* the length of the whitespace run that starts at i
RECURSIVE SpaceRun(_, _)
SpaceRun(s, i) == IF i <= Len(s) /\ IsSpace(CharAt(s, i)) THEN 1 + SpaceRun(s, i + 1) ELSE 0

\* the length of the whitespace run that ends at j
RECURSIVE SpaceRunBack(_, _)
SpaceRunBack(s, j) == IF j >= 1 /\ IsSpace(CharAt(s, j)) THEN 1 + SpaceRunBack(s, j - 1) ELSE 0

\* String.prototype.trim
trim(s) ==
  LET lead == SpaceRun(s, 1)
  IN IF lead = Len(s) THEN ""
     ELSE SubSeq(s, lead + 1, Len(s) - SpaceRunBack(s, Len(s)))

\* s.replace(/\[|\]/g, '')
RECURSIVE StripBrackets(_)
StripBrackets(s) ==
  IF s = "" THEN ""
  ELSE (IF CharAt(s, 1) \in {"[", "]"} THEN "" ELSE CharAt(s, 1))
         \o StripBrackets(SubSeq(s, 2, Len(s)))

\* the place of the first ] at or after j on the same line; 0 when there is none
RECURSIVE CloseFrom(_, _)
CloseFrom(s, j) ==
  IF j > Len(s) \/ CharAt(s, j) = "\n" THEN 0
  ELSE IF CharAt(s, j) = "]" THEN j
  ELSE CloseFrom(s, j + 1)

\* s.match(/\[(.*?)\]/g)?.map(m => m.replace(/\[|\]/g, '')) || []
RECURSIVE BracketedFrom(_, _)
BracketedFrom(s, i) ==
  IF i > Len(s) THEN <<>>
  ELSE IF CharAt(s, i) = "[" /\ CloseFrom(s, i + 1) > 0
       THEN <<StripBrackets(SubSeq(s, i, CloseFrom(s, i + 1)))>>
              \o BracketedFrom(s, CloseFrom(s, i + 1) + 1)
       ELSE BracketedFrom(s, i + 1)

Bracketed(s) == BracketedFrom(s, 1)

\* (?:interested in|would you like|choose between|specify), matched without case
Openers == <<"interested in", "would you like", "choose between", "specify">>

\* the last place of the shortest (.+?) followed by ? or by the end of s, where e
\* is the place after its last character so far; 0 when the line ends first
RECURSIVE GroupEndFrom(_, _)
GroupEndFrom(s, e) ==
  IF e > Len(s) THEN e - 1
  ELSE IF CharAt(s, e) = "?" THEN e - 1
  ELSE IF CharAt(s, e) = "\n" THEN 0
  ELSE GroupEndFrom(s, e + 1)

\* the places where (.+?) may start after \s+ has matched from q on
GroupStarts(s, q) ==
  {g \in (q + 1)..(q + SpaceRun(s, q)) :
     g <= Len(s) /\ CharAt(s, g) # "\n" /\ GroupEndFrom(s, g + 1) > 0}

\* the opener matches at p and the rest of the pattern after it
OpenerAt(s, p, k) ==
  /\ p + Len(Openers[k]) - 1 <= Len(s)
  /\ toLowerCase(SubSeq(s, p, p + Len(Openers[k]) - 1)) = Openers[k]
  /\ GroupStarts(s, p + Len(Openers[k])) # {}

Largest(S) == CHOOSE x \in S : \A y \in S : y <= x
Smallest(S) == CHOOSE x \in S : \A y \in S : x <= y

\* fullReply.match(/(?:...)\s+(.+?)(?:\?|$)/i): group 1 of the leftmost match
questionMatch(s) ==
  LET starts == {p \in 1..Len(s) : \E k \in 1..Len(Openers) : OpenerAt(s, p, k)}
  IN IF starts = {} THEN Undefined
     ELSE LET p == Smallest(starts)
              k == CHOOSE k \in 1..Len(Openers) : OpenerAt(s, p, k)
              g == Largest(GroupStarts(s, p + Len(Openers[k])))
          IN Str(SubSeq(s, g, GroupEndFrom(s, g + 1)))

\* the place after the match of /,\s*or\s*|,\s*|\s+or\s+/ at i; 0 when none
SeparatorEnd(s, i) ==
  IF CharAt(s, i) = ","
  THEN LET a == i + 1 + SpaceRun(s, i + 1)
       IN IF SubSeq(s, a, a + 1) = "or" THEN a + 2 + SpaceRun(s, a + 2) ELSE a
  ELSE IF IsSpace(CharAt(s, i))
  THEN LET a == i + SpaceRun(s, i)
       IN IF SubSeq(s, a, a + 1) = "or" /\ SpaceRun(s, a + 2) > 0
          THEN a + 2 + SpaceRun(s, a + 2) ELSE 0
  ELSE 0

\* optionsText.split(/,\s*or\s*|,\s*|\s+or\s+/)
RECURSIVE SplitOptionsFrom(_, _, _)
SplitOptionsFrom(s, i, cur) ==
  IF i > Len(s) THEN <<cur>>
  ELSE IF SeparatorEnd(s, i) > 0
       THEN <<cur>> \o SplitOptionsFrom(s, SeparatorEnd(s, i), "")
       ELSE SplitOptionsFrom(s, i + 1, cur \o CharAt(s, i))

endsWith(s, suffix) ==
  Len(s) >= Len(suffix) /\ SubSeq(s, Len(s) - Len(suffix) + 1, Len(s)) = suffix

\* s.replace(/^(our\s+)?/, '')
StripOur(s) ==
  IF startsWith(s, "our") /\ SpaceRun(s, 4) > 0
  THEN SubSeq(s, 4 + SpaceRun(s, 4), Len(s)) ELSE s

\* s.replace(/\s+(solution|services?)$/, '')
StripKind(s) ==
  LET kinds == {w \in {"solution", "service", "services"} :
                  endsWith(s, w) /\ SpaceRunBack(s, Len(s) - Len(w)) > 0}
  IN IF kinds = {} THEN s
     ELSE LET w == CHOOSE w \in kinds : TRUE
          IN SubSeq(s, 1, Len(s) - Len(w) - SpaceRunBack(s, Len(s) - Len(w)))

\* the options read out of a question (server.js 265-270)
potentialSuggestions(optionsText) ==
  LET pieces == SplitOptionsFrom(optionsText, 1, "")
      cleaned == [i \in 1..Len(pieces) |-> trim(StripKind(StripOur(pieces[i])))]
  IN SelectSeq(cleaned, LAMBDA o : Len(o) > 2 /\ Len(o) < 50)

\* the reply text never cut at the marker
ListedSuggestions_WholeReply(fullReply) ==
  [replyText |-> fullReply,
   suggestions |-> IF Len(SplitOn(fullReply, "SUGGESTED:")) > 1
                   THEN Bracketed(SplitOn(fullReply, "SUGGESTED:")[2]) ELSE <<>>]

\* the suggestions of the SUGGESTED: line, primary format first (server.js 241-258)
ListedSuggestions(fullReply) ==
  LET parts == SplitOn(fullReply, "\nSUGGESTED:")
      loose == SplitOn(fullReply, "SUGGESTED:")
  IN IF Len(parts) > 1 THEN [replyText |-> parts[1], suggestions |-> Bracketed(parts[2])]
     ELSE IF Len(loose) > 1 THEN [replyText |-> loose[1], suggestions |-> Bracketed(loose[2])]
     ELSE [replyText |-> fullReply, suggestions |-> <<>>]

\* { reply: replyText?.trim(), suggestions } (server.js 236-281)
ParseReply(fullReply) ==
  LET listed == ListedSuggestions(fullReply)
      asked == questionMatch(fullReply)
      options == IF asked.kind = "string" THEN potentialSuggestions(asked.value) ELSE <<>>
  IN [reply |-> Str(trim(listed.replyText)),
      suggestions |-> IF listed.suggestions # <<>> THEN listed.suggestions
                      ELSE IF Len(options) > 0 /\ Len(options) <= 5 THEN options
                      ELSE <<>>]

\* result.choices?.[0]?.message?.content of the replies the provider may give;
\* undefined when the reply holds no choices (a non-success reply)
Contents ==
  { Undefined,
    Str(""),
    Str("Happy to help."),
    Str("Happy to help.\n"),
    Str("We automate loans.\nSUGGESTED: [Loan automation] | [Pricing] | [Contact us]"),
    Str("We can help. SUGGESTED: [ Pricing ] | [Demo]"),
    Str("Sure. \nSUGGESTED: [Loans] | [Cards] | [Risk] | [Fraud]"),
    Str("Answer text\nSUGGESTED: [Option A] | [Option B]"),
    Str("Yes.\nSUGGESTED: [Loans]\nSUGGESTED: [Cards]"),
    Str("Are you interested in banking, retail or our insurance services?"),
    Str("Please specify your industry") }

(***************************************************************************)
(* The provider's streamed reply.  The OpenAI client yields one chunk      *)
(* object per delta; "" is a chunk without text.  The Claude body is a     *)
(* byte stream of server-sent events, cut into chunks by the network.      *)
(***************************************************************************)
Deltas == {"Hel", "lo", ""}

RECURSIVE SeqsUpTo(_, _)
\* the sequences over S of length at most n
SeqsUpTo(S, n) ==
  IF n = 0 THEN {<<>>}
  ELSE LET shorter == SeqsUpTo(S, n - 1)
       IN shorter \cup { Append(q, x) : q \in {r \in shorter : Len(r) = n - 1}, x \in S }

\* the fragments of text among the deltas
TextFragments(deltas) == SelectSeq(deltas, LAMBDA d : d # "")

JsonOpen == "{\"delta\":{\"text\":\""
JsonClose == "\"}}"

\* one content_block_delta event as the provider frames it
Frame(delta) == "event: delta\ndata: " \o JsonOpen \o delta \o JsonClose \o "\n\n"

DoneFrame == "data: [DONE]\n\n"

\* the text of an event the provider sends after the [DONE] line
Trailer == "late"

\* the text of a last event whose line the provider does not terminate
OpenDelta == "end"

RECURSIVE Frames(_)
Frames(deltas) == IF deltas = <<>> THEN "" ELSE Frame(Head(deltas)) \o Frames(Tail(deltas))

\* a last data line without its newline
OpenLine == "data: " \o JsonOpen \o OpenDelta \o JsonClose

\* what may follow the events of the reply: nothing, an event after the
\* [DONE] line, or a last data line without its newline
Tails == {"", Frame(Trailer), OpenLine}

\* the body of a non-success reply
ErrorBody == "{\"type\":\"error\"}"

\* parsed.delta && parsed.delta.text of JSON.parse(data); "" when data is not JSON
\* or holds no delta text
DeltaText(data) ==
  IF /\ Len(data) >= Len(JsonOpen) + Len(JsonClose)
     /\ startsWith(data, JsonOpen)
     /\ SubSeq(data, Len(data) - Len(JsonClose) + 1, Len(data)) = JsonClose
  THEN SubSeq(data, Len(JsonOpen) + 1, Len(data) - Len(JsonClose))
  ELSE ""

\* for (const line of lines) { ... } of the 'data' listener (server.cjs 183-200)
RECURSIVE ProcessLines(_, _)
ProcessLines(lines, r) ==
  IF lines = <<>> THEN r
  ELSE LET line == Head(lines)
           data == SubSeq(line, 7, Len(line))
       IN IF ~startsWith(line, "data: ") THEN ProcessLines(Tail(lines), r)
          ELSE IF data = "[DONE]" THEN ResEnd(r)
          ELSE IF DeltaText(data) # "" THEN ProcessLines(Tail(lines), ResWrite(r, DeltaText(data)))
          ELSE ProcessLines(Tail(lines), r)

\* the 'data' listener (server.cjs 178-201): the new buffer and response
OnData(buf, chunk, r) ==
  LET lines == SplitLines(buf \o chunk)
  IN [buffer |-> lines[Len(lines)],
      res |-> ProcessLines(SubSeq(lines, 1, Len(lines) - 1), r)]

\* the lengths of the chunk the network may hand over next
ChunkLengths(bytes) == {k \in 1..Len(bytes) : k = ChunkCut \/ k = Len(bytes)}

(***************************************************************************)
(* The corpus artifact, its load at startup, and the corpus array in the   *)
(* hands of the handlers.                                                  *)
(***************************************************************************)
Artifact(kind, docs) == [kind |-> kind, docs |-> docs]

\* what embedded_content.json may hold: nothing (the file is missing), text
\* that is not JSON, a JSON value that is not an array of passages, or an
\* array of passages
Artifacts ==
  {Artifact(k, <<>>) : k \in {"missing", "invalid", "object"}}
    \cup {Artifact("array", c) : c \in Corpora}

\* fs.readFile rejects for a missing file and JSON.parse throws for text that
\* is not JSON; JSON.parse returns every other value as it is
LoadThrows(a) == a.kind \in {"missing", "invalid"}

\* the corpus array with the sort of the handler working on the corpus array
\* itself whenever no passage was filtered out
CorpusAfterSelection_SortedInPlace(docs, scoredDocs, cmp) ==
  IF Len(scoredDocs) # Len(docs) THEN docs
  ELSE LET r == CHOOSE o \in SortResults(scoredDocs, cmp) : TRUE
       IN [i \in 1..Len(r) |->
             IF cmp = "count" THEN r[i].doc
             ELSE [content |-> r[i].content, vector |-> r[i].vector, tags |-> r[i].tags]]

\* the corpus array after a selection over it: filter and map return new
\* arrays (map one of new objects), the in-place sort works on those, and
\* slice and join do not write (server.js 51-67, server.cjs 35-124)
CorpusAfterSelection(docs, scoredDocs, cmp) == docs

\* the scored passages and the selections a handler may make over docs
ScoredOver(h, docs, b, v) ==
  IF h = "sse"
  THEN IF Len(QueryWords(UserInput(b).value)) > 0
       THEN ScoreDocsLexical(FilterByIndustryLexical(docs, b.industry),
                             QueryWords(UserInput(b).value))
       ELSE <<>>
  ELSE ScoreDocs(IF h = "legacy" THEN docs ELSE FilterByIndustry(docs, b.industry), v)

SelectionsOver(h, docs, b, v) ==
  IF h = "sse"
  THEN {LexicalSelection(FilterByIndustryLexical(docs, b.industry),
                         QueryWords(UserInput(b).value))}
  ELSE TopRelevant(ScoredOver(h, docs, b, v), Threshold(h))

(***************************************************************************)
(* State.                                                                  *)
(***************************************************************************)
VARIABLES
  handler,            \* the /api/query handler the process serves
  embeddedDocs,       \* the corpus loaded at startup
  pc,                 \* where the request is: idle, embedding, completing, streaming, done, crashed
  body,               \* req.body
  queryVector,        \* the embedding of the user input
  filtered,           \* the passages left by the category filter
  scored,             \* the scored passages
  topRelevant,        \* the passages selected for the context
  topChunks,          \* the assembled context
  completionRequest,  \* the request sent to the completion provider
  res,                \* the HTTP response
  replyOk,            \* the completion provider answered with a success status
  upstream,           \* the provider's stream: none, open, ended, errored
  emitted,            \* the deltas of the provider's reply
  fullReply,          \* the content of the provider's completed reply (buffered handler)
  wire,               \* the bytes of the Claude body not yet handed over
  buffer,             \* the incomplete line kept by the 'data' listener
  uncaught,           \* an exception reached the process level
  server,             \* the process: loading, listening, exited
  artifact,           \* the content of embedded_content.json
  client,             \* the connection of the HTTP client: open, closed
  peer                \* a second request in flight on the same process

vars ==
  <<handler, embeddedDocs, pc, body, queryVector, filtered, scored, topRelevant, topChunks,
    completionRequest, res, replyOk, upstream, emitted, fullReply, wire, buffer, uncaught,
    server, artifact, client, peer>>

retrievalVars == <<queryVector, filtered, scored, topRelevant, topChunks, completionRequest>>
streamVars == <<replyOk, upstream, emitted, fullReply, wire, buffer>>
envVars == <<server, artifact, client, peer>>

NoBody == [query |-> Undefined, messages |-> Undefined, industry |-> Undefined, userName |-> Undefined]

\* no second request is in flight
NoPeer == [pc |-> "idle", body |-> NoBody, queryVector |-> <<>>, topRelevant |-> <<>>]

InitRequest ==
  /\ pc = "idle"
  /\ body = NoBody
  /\ queryVector = <<>>
  /\ filtered = <<>>
  /\ scored = <<>>
  /\ topRelevant = <<>>
  /\ topChunks = <<>>
  /\ completionRequest = NoRequest
  /\ res = NewResponse
  /\ replyOk = FALSE
  /\ upstream = "none"
  /\ emitted = <<>>
  /\ fullReply = Undefined
  /\ wire = ""
  /\ buffer = ""
  /\ uncaught = FALSE
  /\ client = "open"
  /\ peer = NoPeer

\* the process listens with the corpus docs loaded
Listening(docs) ==
  /\ server = "listening"
  /\ artifact = Artifact("array", docs)
  /\ embeddedDocs = docs

\* the three-passage corpus of the end-to-end scenario, and the empty corpus
Init ==
  /\ handler \in Handlers
  /\ \E docs \in {<<>>, SubSeq(Master, 1, 3)} : Listening(docs)
  /\ InitRequest

InitSelect ==
  /\ handler \in Handlers
  /\ \E docs \in Corpora : Listening(docs)
  /\ InitRequest

\* the process has been started and the corpus is not loaded yet
InitStartup ==
  /\ handler \in Handlers
  /\ server = "loading"
  /\ artifact \in Artifacts
  /\ embeddedDocs = <<>>
  /\ InitRequest

(***************************************************************************)
(* Startup (server.js 21 and 133-135, server.cjs 13-15 and 248-250).       *)
(***************************************************************************)
\* the awaited load settles: when it throws, the module (or the async
\* function wrapped around the program) ends before app.post and app.listen
\* are reached; otherwise the parsed value is bound and the process listens
LoadCorpus ==
  /\ server = "loading"
  /\ IF LoadThrows(artifact)
     THEN /\ server' = "exited"
          /\ UNCHANGED embeddedDocs
     ELSE /\ server' = "listening"
          /\ embeddedDocs' = artifact.docs
  /\ UNCHANGED <<handler, pc, body, retrievalVars, res, streamVars, uncaught,
                 artifact, client, peer>>

(***************************************************************************)
(* The handler up to the completion call.                                  *)
(***************************************************************************)
\* the parsed artifact is not an array: the array methods the handler calls
\* on embeddedDocs do not exist, and the call throws inside the try block
CorpusThrows == artifact.kind = "object"

\* a request arrives: validation, and in the lexical handler the whole selection
Request(b) ==
  /\ server = "listening"
  /\ pc = "idle"
  /\ b \in Bodies(handler)
  /\ body' = b
  /\ IF handler # "legacy" /\ SliceThrows(b)
     THEN \* thrown before the check and outside the try block: the promise of the
          \* handler rejects; Express 4 leaves the rejection unhandled, Express 5
          \* answers it with its default error response
          /\ UNCHANGED <<embeddedDocs, retrievalVars>>
          /\ \/ uncaught' = TRUE /\ pc' = "crashed" /\ UNCHANGED res
             \/ /\ res' = ResSend(res, 500, "Internal Server Error")
                /\ pc' = "done"
                /\ UNCHANGED uncaught
     ELSE IF handler # "legacy" /\ Invalid(b)
     THEN /\ res' = ResSend(res, 400, "Invalid request: missing messages")
          /\ pc' = "done"
          /\ UNCHANGED <<embeddedDocs, retrievalVars, uncaught>>
     ELSE IF handler = "sse" /\ CorpusThrows
     THEN /\ res' = Catch(handler, res)
          /\ pc' = "done"
          /\ UNCHANGED <<embeddedDocs, retrievalVars, uncaught>>
     ELSE IF handler = "sse"
     THEN /\ filtered' = FilterByIndustryLexical(embeddedDocs, b.industry)
          /\ scored' = ScoredOver(handler, embeddedDocs, b, <<>>)
          /\ topRelevant' \in SelectionsOver(handler, embeddedDocs, b, <<>>)
          /\ embeddedDocs' = CorpusAfterSelection(embeddedDocs, scored', "count")
          /\ topChunks' = CappedContext(topRelevant')
          /\ completionRequest' = CompletionRequest(handler, b, topChunks')
          /\ pc' = "completing"
          /\ UNCHANGED <<queryVector, res, uncaught>>
     ELSE /\ pc' = "embedding"
          /\ UNCHANGED <<embeddedDocs, retrievalVars, res, uncaught>>
  /\ UNCHANGED <<envVars, handler, streamVars>>

\* the embedding call rejects, or its reply holds no vector
EmbeddingFails ==
  /\ pc = "embedding"
  /\ res' = Catch(handler, res)
  /\ pc' = "done"
  /\ UNCHANGED <<envVars, handler, embeddedDocs, body, retrievalVars, streamVars, uncaught>>

\* the embedding call returns: filter, score, select, assemble, build the request
EmbeddingReturns(v) ==
  /\ pc = "embedding"
  /\ ~Falsy(EmbeddingInput(handler, body))
  /\ queryVector' = v
  /\ IF CorpusThrows
     THEN /\ res' = Catch(handler, res)
          /\ pc' = "done"
          /\ UNCHANGED <<embeddedDocs, filtered, scored, topRelevant, topChunks,
                         completionRequest>>
     ELSE /\ filtered' = IF handler = "legacy" THEN embeddedDocs
                         ELSE FilterByIndustry(embeddedDocs, body.industry)
          /\ scored' = ScoredOver(handler, embeddedDocs, body, v)
          /\ topRelevant' \in SelectionsOver(handler, embeddedDocs, body, v)
          /\ embeddedDocs' = CorpusAfterSelection(embeddedDocs, scored', "score")
          /\ topChunks' = JoinContents(topRelevant')
          /\ completionRequest' = CompletionRequest(handler, body, topChunks')
          /\ pc' = "completing"
          /\ UNCHANGED res
  /\ UNCHANGED <<envVars, handler, body, streamVars, uncaught>>

NextSelect ==
  \/ \E b \in Bodies(handler) : Request(b)
  \/ EmbeddingFails
  \/ \E v \in QueryVectors : EmbeddingReturns(v)

SpecSelect == InitSelect /\ [][NextSelect]_vars

\* the handlers of every program of the repository, up to the completion call
InitPrompt ==
  /\ handler \in AllHandlers
  /\ \E docs \in {<<>>, SubSeq(Master, 1, 3)} : Listening(docs)
  /\ InitRequest

SpecPrompt == InitPrompt /\ [][NextSelect]_vars

\* the handler of server.cjs over corpora of more than five passages
InitLexical ==
  /\ handler = "sse"
  /\ \E docs \in LexicalCorpora : Listening(docs)
  /\ InitRequest

NextLexical == \E b \in Bodies(handler) : Request(b)

SpecLexical == InitLexical /\ [][NextLexical]_vars


(***************************************************************************)
(* The completion call and the relay of the streamed reply.                *)
(***************************************************************************)
SdkHandlers == {"stream", "legacy", "initial"}
FetchHandlers == {"sse", "reader"}

\* the completion call rejects: a transport error, or a non-success status
\* reported by the OpenAI client
CompletionFails ==
  /\ pc = "completing"
  /\ res' = Catch(handler, res)
  /\ pc' = "done"
  /\ UNCHANGED <<envVars, handler, embeddedDocs, body, retrievalVars, streamVars, uncaught>>

\* the completion call of the buffered handler resolves with a reply that can be
\* parsed: the reply text and the suggestions are sent (server.js 218-281)
CompletionReturns(ok, content) ==
  /\ pc = "completing"
  /\ handler = "buffered"
  /\ content \in Contents
  /\ ~ok => content = Undefined
  /\ replyOk' = ok
  /\ fullReply' = Str(IF Falsy(content) THEN "" ELSE content.value)
  /\ res' = ResSendJson(res, 200, ParseReply(fullReply'.value))
  /\ pc' = "done"
  /\ UNCHANGED <<envVars, handler, embeddedDocs, body, retrievalVars, upstream, emitted, wire, buffer, uncaught>>

\* the OpenAI client returns the stream (server.js 89-93)
StreamOpens ==
  /\ pc = "completing"
  /\ handler \in SdkHandlers
  /\ pc' = "streaming"
  /\ replyOk' = TRUE
  /\ upstream' = "open"
  /\ UNCHANGED <<envVars, handler, embeddedDocs, body, retrievalVars, res, emitted, fullReply, wire, buffer, uncaught>>

\* one turn of for await (const chunk of stream) (server.js 95-98)
StreamChunk(content) ==
  /\ pc = "streaming"
  /\ handler \in SdkHandlers
  /\ upstream = "open"
  /\ Len(emitted) < MaxFrags
  /\ emitted' = Append(emitted, content)
  /\ res' = IF content # "" THEN ResWrite(res, content) ELSE res
  /\ UNCHANGED <<envVars, handler, embeddedDocs, pc, body, retrievalVars, replyOk, upstream, fullReply, wire, buffer, uncaught>>

\* the stream is exhausted: res.end() (server.js 100)
StreamEnds ==
  /\ pc = "streaming"
  /\ handler \in SdkHandlers
  /\ upstream = "open"
  /\ upstream' = "ended"
  /\ res' = ResEnd(res)
  /\ pc' = "done"
  /\ UNCHANGED <<envVars, handler, embeddedDocs, body, retrievalVars, replyOk, emitted, fullReply, wire, buffer, uncaught>>

\* the stream rejects inside the loop: the catch block (server.js 101-105)
StreamThrows ==
  /\ pc = "streaming"
  /\ handler \in SdkHandlers
  /\ upstream = "open"
  /\ upstream' = "errored"
  /\ res' = Catch(handler, res)
  /\ pc' = "done"
  /\ UNCHANGED <<envVars, handler, embeddedDocs, body, retrievalVars, replyOk, emitted, fullReply, wire, buffer, uncaught>>

\* fetch resolves with the provider's reply (server.cjs 140-173, part_002 223-244)
FetchReturns(ok, hasBody, deltas, sentinel, tail) ==
  /\ pc = "completing"
  /\ handler \in FetchHandlers
  /\ ok => hasBody
  /\ (~ok \/ ~hasBody) => (deltas = <<>> /\ ~sentinel)
  /\ tail \in Tails
  /\ (~ok \/ ~hasBody) => tail = ""
  /\ tail = Frame(Trailer) => sentinel
  /\ tail = OpenLine => ~sentinel
  /\ replyOk' = ok
  /\ IF (handler = "sse" /\ ~ok) \/ ~hasBody
     THEN /\ res' = Catch(handler, res)
          /\ pc' = "done"
          /\ UNCHANGED <<upstream, emitted, wire, buffer>>
     ELSE /\ pc' = "streaming"
          /\ upstream' = "open"
          /\ emitted' = IF tail = OpenLine THEN Append(deltas, OpenDelta) ELSE deltas
          /\ wire' = IF ok THEN Frames(deltas) \o (IF sentinel THEN DoneFrame ELSE "")
                                 \o tail
                     ELSE ErrorBody
          /\ UNCHANGED <<res, buffer>>
  /\ UNCHANGED <<envVars, handler, embeddedDocs, body, retrievalVars, fullReply, uncaught>>

\* the body hands over a chunk: the 'data' listener (server.cjs 178-201),
\* or one turn of the reader loop (part_002 247-252)
BodyData(k) ==
  /\ pc = "streaming"
  /\ handler \in FetchHandlers
  /\ upstream = "open"
  /\ k \in ChunkLengths(wire)
  /\ wire' = SubSeq(wire, k + 1, Len(wire))
  /\ IF handler = "sse"
     THEN /\ buffer' = OnData(buffer, SubSeq(wire, 1, k), res).buffer
          /\ res' = OnData(buffer, SubSeq(wire, 1, k), res).res
     ELSE /\ res' = ResWrite(res, SubSeq(wire, 1, k))
          /\ UNCHANGED buffer
  /\ UNCHANGED <<envVars, handler, embeddedDocs, pc, body, retrievalVars, replyOk, upstream, emitted, fullReply, uncaught>>

\* the body ends: the 'end' listener (server.cjs 203-205),
\* or done from reader.read() (part_002 249-254)
BodyEnd ==
  /\ pc = "streaming"
  /\ handler \in FetchHandlers
  /\ upstream = "open"
  /\ wire = ""
  /\ upstream' = "ended"
  /\ res' = ResEnd(res)
  /\ pc' = "done"
  /\ UNCHANGED <<envVars, handler, embeddedDocs, body, retrievalVars, replyOk, emitted, fullReply, wire, buffer, uncaught>>

\* the body fails: the 'error' listener rethrows outside the handler's try
\* (server.cjs 207-210); reader.read() rejects inside it (part_002 255-259)
BodyError ==
  /\ pc = "streaming"
  /\ handler \in FetchHandlers
  /\ upstream = "open"
  /\ upstream' = "errored"
  /\ IF handler = "sse"
     THEN /\ uncaught' = TRUE
          /\ pc' = "crashed"
          /\ UNCHANGED res
     ELSE /\ res' = Catch(handler, res)
          /\ pc' = "done"
          /\ UNCHANGED uncaught
  /\ UNCHANGED <<envVars, handler, embeddedDocs, body, retrievalVars, replyOk, emitted, fullReply, wire, buffer>>

\* the HTTP client goes away while the answer is relayed: no handler has a
\* listener for the close of the request or of the response, so nothing of
\* the handler runs (server.js 89-100, server.cjs 175-210)
ClientDisconnects ==
  /\ pc = "streaming"
  /\ client = "open"
  /\ client' = "closed"
  /\ UNCHANGED <<handler, embeddedDocs, pc, body, retrievalVars, res, streamVars, uncaught,
                 server, artifact, peer>>

Next ==
  \/ \E b \in Bodies(handler) : Request(b)
  \/ EmbeddingFails
  \/ \E v \in QueryVectors : EmbeddingReturns(v)
  \/ CompletionFails
  \/ \E ok \in BOOLEAN, content \in Contents : CompletionReturns(ok, content)
  \/ StreamOpens
  \/ \E content \in Deltas : StreamChunk(content)
  \/ StreamEnds
  \/ StreamThrows
  \/ \E ok, hasBody, sentinel \in BOOLEAN, deltas \in SeqsUpTo(Deltas, MaxFrags) :
       FetchReturns(ok, hasBody, deltas, sentinel, "")
  \/ \E k \in 1..Len(wire) : BodyData(k)
  \/ BodyEnd
  \/ BodyError

Spec == Init /\ [][Next]_vars

\* the lifecycle of a request with a client that may go away during the
\* relay, and with a provider body that may go on after the [DONE] line or
\* end without a newline
NextRelay ==
  \/ Next
  \/ ClientDisconnects
  \/ \E sentinel \in BOOLEAN, deltas \in SeqsUpTo(Deltas, MaxFrags), tail \in Tails \ {""} :
       FetchReturns(TRUE, TRUE, deltas, sentinel, tail)

SpecRelay == Init /\ [][NextRelay]_vars

(***************************************************************************)
(* The process from its start: the load, then requests.                    *)
(***************************************************************************)
NextStartup ==
  \/ LoadCorpus
  \/ \E b \in Bodies(handler) : Request(b)
  \/ EmbeddingFails
  \/ \E v \in QueryVectors : EmbeddingReturns(v)

SpecStartup == InitStartup /\ [][NextStartup]_vars

(***************************************************************************)
(* Two requests in flight.  The code between two awaits of a handler runs  *)
(* to its end before any other callback runs, so a request interleaves     *)
(* with another one at the embedding call, at the completion call and at   *)
(* the events of the stream: its opening, its end and its failure (a       *)
(* chunk of the stream reaches res and emitted only).                      *)
(***************************************************************************)
\* the bodies of the second request: one user turn with text (a query with
\* text in the legacy handler), with the category Banking or with none
PeerBodies(h) ==
  { b \in Bodies(h) :
      IF h = "legacy" THEN ~Falsy(b.query)
      ELSE /\ b.messages.kind = "array"
           /\ Len(b.messages.items) = 1
           /\ b.messages.items[1].role = "user"
           /\ ~Invalid(b)
           /\ b.industry \in {Undefined, Str("Banking")} }

\* the response of a request has ended and the next request arrives
NextRequest ==
  /\ pc = "done"
  /\ pc' = "idle"
  /\ body' = NoBody
  /\ queryVector' = <<>>
  /\ filtered' = <<>>
  /\ scored' = <<>>
  /\ topRelevant' = <<>>
  /\ topChunks' = <<>>
  /\ completionRequest' = NoRequest
  /\ res' = NewResponse
  /\ replyOk' = FALSE
  /\ upstream' = "none"
  /\ emitted' = <<>>
  /\ fullReply' = Undefined
  /\ wire' = ""
  /\ buffer' = ""
  /\ client' = "open"
  /\ UNCHANGED <<handler, embeddedDocs, uncaught, server, artifact, peer>>

\* the second request arrives: in the lexical handler the whole selection
PeerRequest(b) ==
  /\ server = "listening"
  /\ peer.pc = "idle"
  /\ b \in PeerBodies(handler)
  /\ IF handler = "sse"
     THEN /\ \E sel \in SelectionsOver(handler, embeddedDocs, b, <<>>) :
               peer' = [pc |-> "completing", body |-> b, queryVector |-> <<>>,
                        topRelevant |-> sel]
          /\ embeddedDocs' =
               CorpusAfterSelection(embeddedDocs, ScoredOver(handler, embeddedDocs, b, <<>>),
                                    "count")
     ELSE /\ peer' = [pc |-> "embedding", body |-> b, queryVector |-> <<>>,
                      topRelevant |-> <<>>]
          /\ UNCHANGED embeddedDocs
  /\ UNCHANGED <<handler, pc, body, retrievalVars, res, streamVars, uncaught,
                 server, artifact, client>>

\* the embedding call of the second request returns: its selection
PeerEmbeddingReturns(v) ==
  /\ peer.pc = "embedding"
  /\ \E sel \in SelectionsOver(handler, embeddedDocs, peer.body, v) :
       peer' = [pc |-> "completing", body |-> peer.body, queryVector |-> v,
                topRelevant |-> sel]
  /\ embeddedDocs' =
       CorpusAfterSelection(embeddedDocs, ScoredOver(handler, embeddedDocs, peer.body, v),
                            "score")
  /\ UNCHANGED <<handler, pc, body, retrievalVars, res, streamVars, uncaught,
                 server, artifact, client>>

\* the second request ends: a provider call fails, or the relay ends
PeerResponds ==
  /\ peer.pc \in {"embedding", "completing"}
  /\ peer' = NoPeer
  /\ UNCHANGED <<handler, embeddedDocs, pc, body, retrievalVars, res, streamVars, uncaught,
                 server, artifact, client>>

NextConcurrent ==
  \/ \E b \in Bodies(handler) : Request(b)
  \/ EmbeddingFails
  \/ \E v \in QueryVectors : EmbeddingReturns(v)
  \/ CompletionFails
  \/ StreamOpens
  \/ StreamEnds
  \/ StreamThrows
  \/ NextRequest
  \/ \E b \in PeerBodies(handler) : PeerRequest(b)
  \/ \E v \in QueryVectors : PeerEmbeddingReturns(v)
  \/ PeerResponds

SpecConcurrent == Init /\ [][NextConcurrent]_vars


(***************************************************************************)
(* Claims.                                                                 *)
(***************************************************************************)
\* the selection has been made and the completion request is on its way
Selected == pc = "completing"

\* the threshold T of the handler, num / sqrt(den): 0.4 = 2 / sqrt(25), and
\* 0.5 = 1 / sqrt(4) in the legacy handler
ClaimT == IF handler = "legacy" THEN Score(1, 4) ELSE Score(2, 25)

\* the places of scored whose score is above T
AboveT == {i \in 1..Len(scored) : ScoreGT(scored[i].score, ClaimT)}

\* seq holds n distinct members of pool, in non-increasing score order, and no
\* member of pool left out scores more than one of them
IsTopByScore(seq, pool, n) ==
  /\ Len(seq) = n
  /\ \A k \in 1..Len(seq) : seq[k] \in pool
  /\ \A k, l \in 1..Len(seq) : k < l => seq[k] # seq[l]
  /\ \A k, l \in 1..Len(seq) : k < l => ~ScoreGT(seq[l].score, seq[k].score)
  /\ \A d \in pool : (\A k \in 1..Len(seq) : seq[k] # d)
                        => \A k \in 1..Len(seq) : ~ScoreGT(d.score, seq[k].score)

Least(a, b) == IF a < b THEN a ELSE b

\* C1: with a non-empty category filter c, every selected passage has a tag whose
\* lower-case form matches lower-case c (equal to it in the cosine handlers,
\* containing it in the lexical handler), in the threshold and the fallback branch
C1_SelectedMatchCategory ==
  (Selected /\ ~Falsy(body.industry)) =>
    \A k \in 1..Len(topRelevant) :
      /\ topRelevant[k].tags.kind = "array"
      /\ \E t \in 1..Len(topRelevant[k].tags.items) :
           IF handler = "sse"
           THEN StrIncludes(toLowerCase(topRelevant[k].tags.items[t]),
                            toLowerCase(body.industry.value))
           ELSE toLowerCase(topRelevant[k].tags.items[t]) = toLowerCase(body.industry.value)

\* C1 witness: a category filter left some passages out and passages were selected
C1_Witness ==
  /\ Selected
  /\ handler = "stream"
  /\ body.industry = Str("Banking")
  /\ Len(topRelevant) > 0
  /\ \E i \in 1..Len(embeddedDocs) : embeddedDocs[i].tags = Arr(<<"retail">>)
  /\ \E k \in 1..Len(topRelevant) : topRelevant[k].tags = Arr(<<"Banking", "Retail">>)

\* C2: when at least one passage of the filtered set scores above T, the selection
\* is exactly the passages above T in non-increasing score order, cut to the first 4
C2_ThresholdBranch ==
  (Selected /\ handler \in CosineHandlers /\ AboveT # {}) =>
    IsTopByScore(topRelevant, {scored[i] : i \in AboveT}, Least(4, Cardinality(AboveT)))

\* C2 witness: more than four passages score above T and four are selected
C2_Witness ==
  /\ Selected
  /\ handler \in CosineHandlers
  /\ Cardinality(AboveT) > 4
  /\ Len(topRelevant) = 4

\* the filtered set is not empty and every score is a number not above T
AllAtMostT ==
  /\ Len(scored) > 0
  /\ \A i \in 1..Len(scored) : ~IsNaN(scored[i].score) /\ ~ScoreGT(scored[i].score, ClaimT)

\* C3: when the filtered set is not empty and every score is <= T, the selection
\* holds exactly min(2, size) passages, the highest-scoring ones, in non-increasing
\* score order
C3_FallbackBranch ==
  (Selected /\ handler \in CosineHandlers /\ AllAtMostT) =>
    IsTopByScore(topRelevant, {scored[i] : i \in 1..Len(scored)}, Least(2, Len(scored)))

\* C3 witness: three or more passages, none above T, and the first of the corpus
\* is not among the two selected
C3_Witness ==
  /\ Selected
  /\ handler \in CosineHandlers
  /\ AllAtMostT
  /\ Len(scored) >= 3
  /\ \A k \in 1..Len(topRelevant) : topRelevant[k] # scored[1]

\* C4: the selection is empty if and only if the filtered set is empty
C4_EmptyIffFilteredEmpty ==
  Selected => (Len(topRelevant) = 0 <=> Len(filtered) = 0)

\* C4 witness: no passage of a non-empty filtered set clears the threshold, and
\* the selection is not empty
C4_Witness ==
  /\ Selected
  /\ handler \in CosineHandlers
  /\ Len(filtered) > 0
  /\ AboveT = {}
  /\ Len(topRelevant) > 0

\* the Euclidean norm of v is zero
ZeroNorm(v) == \A i \in 1..Len(v) : v[i] = 0

\* C5: no scored passage carries a NaN score, a zero-norm vector scores 0, and
\* the comparator of the selection sort is consistent on every scored set
C5_ScoreNeverNaN ==
  (Selected /\ handler \in CosineHandlers) =>
    /\ \A i \in 1..Len(scored) :
         /\ ~IsNaN(scored[i].score)
         /\ (ZeroNorm(scored[i].vector) \/ ZeroNorm(queryVector)) => scored[i].score.num = 0
    /\ Consistent(scored, "score")

\* C6: the context placed into the message for the completion provider is at
\* most 8000 characters long
C6_ContextWithinCap ==
  Selected => RopeLen(topChunks) <= 8000

\* r ends with the segments of tail
RopeEndsWith(r, tail) ==
  Len(r) >= Len(tail) /\ SubSeq(r, Len(r) - Len(tail) + 1, Len(r)) = tail

\* the messages of the completion request after the system instruction
AfterSystem ==
  IF completionRequest.system.kind = "undefined"
  THEN Tail(completionRequest.messages)
  ELSE completionRequest.messages

\* one system instruction opens the request
HasSystem ==
  \/ completionRequest.system.kind = "text"
  \/ /\ Len(completionRequest.messages) > 0
     /\ completionRequest.messages[1].role = "system"

\* the context is a turn of its own, followed by the caller's turns as they came
ContextTurnThenTurns ==
  /\ Len(AfterSystem) = Len(body.messages.items) + 1
  /\ RopeEndsWith(AfterSystem[1].content, topChunks)
  /\ Tail(AfterSystem) = body.messages.items

\* the caller's turns as they came, the context a prefix of the first of them
ContextInsideFirstTurn ==
  /\ Len(AfterSystem) = Len(body.messages.items)
  /\ \A i \in 1..Len(AfterSystem) :
       /\ AfterSystem[i].role = body.messages.items[i].role
       /\ IF i = 1
          THEN RopeEndsWith(AfterSystem[i].content, body.messages.items[i].content)
          ELSE AfterSystem[i].content = body.messages.items[i].content

\* C7: the request to the completion provider holds one system instruction, then
\* the context, then every turn of the caller in the caller's order with role and
\* content unmodified (the handlers of server.js)
C7_AllTurnsForwarded ==
  (Selected /\ handler \in {"stream", "buffered"}) =>
    /\ HasSystem
    /\ ContextTurnThenTurns \/ ContextInsideFirstTurn

\* C8: when a provider stream completes without error, the fragments written to
\* the response are the text fragments the provider emitted, in emission order
C8_WritesAreFragments ==
  (pc = "done" /\ upstream = "ended" /\ replyOk /\ handler \in {"stream", "reader"}) =>
    res.written = TextFragments(emitted)

\* C9: when the provider stream fails after a fragment has been written, the
\* written output stays, one error marker is appended to it and the response is ended
C9_MarkerAfterFailure ==
  [][(upstream = "open" /\ upstream' = "errored" /\ Len(res.written) > 0 /\ ~res.ended) =>
       /\ res'.ended
       /\ Len(res'.written) = Len(res.written) + 1
       /\ SubSeq(res'.written, 1, Len(res.written)) = res.written]_vars

\* C10: no failure of the embedding call, the completion call or the provider
\* stream reaches the process level; each one ends in a response to the caller
C10_NoUnhandledFailure ==
  /\ ~uncaught
  /\ upstream = "errored" => res.ended

\* the response tells the caller of a failure: an error status, or an error text
FailureSurfaced ==
  \/ res.status >= 400
  \/ \E i \in 1..Len(res.written) :
       res.written[i] \in {ErrorText, "\n\nError: Request processing failed."}
  \/ res.json.reply = Str(ErrorText)

\* C11: a request whose embedding or completion call did not get a success
\* response is answered as a failure, never with a success status and a normal
\* (possibly empty) reply
C11_ProviderFailureSurfaced ==
  (pc = "done" /\ ~replyOk) => FailureSurfaced

\* the conversation is missing, not a sequence, empty, or its last turn has no
\* text; in the legacy handler the conversation is the query field
InvalidConversation ==
  IF handler = "legacy" THEN Falsy(body.query)
  ELSE \/ body.messages.kind # "array"
       \/ Len(body.messages.items) = 0
       \/ RopeLen(body.messages.items[Len(body.messages.items)].content) = 0

\* C12: a request with an invalid conversation is answered with status 400 and
\* neither the embedding provider nor the completion provider is called for it
C12_InvalidRejected ==
  (pc # "idle" /\ InvalidConversation) =>
    /\ pc = "done"
    /\ res.status = 400
    /\ queryVector = <<>>
    /\ completionRequest = NoRequest

\* the marker of the primary format
Marker == "\nSUGGESTED:"

\* the text before the first marker of a reply that holds one
BeforeMarker(reply) == SubSeq(reply, 1, IndexOfFrom(reply, Marker, 1) - 1)

\* everything after the first marker of a reply that holds one
AfterMarker(reply) == SubSeq(reply, IndexOfFrom(reply, Marker, 1) + Len(Marker), Len(reply))

\* the buffered handler has sent the result of a reply that holds the marker,
\* with a bracket-delimited token after it
PrimaryFormatSent ==
  /\ handler = "buffered"
  /\ pc = "done"
  /\ fullReply.kind = "string"
  /\ IndexOfFrom(fullReply.value, Marker, 1) > 0
  /\ Bracketed(AfterMarker(fullReply.value)) # <<>>

\* C13: for a reply <text> + "\nSUGGESTED:" + <tail>, the reply text is <text>
\* trimmed and the suggestions are the contents of the bracket-delimited tokens
\* of <tail> in left-to-right order
C13_PrimaryExtraction ==
  PrimaryFormatSent =>
    /\ res.json.reply = Str(trim(BeforeMarker(fullReply.value)))
    /\ res.json.suggestions = Bracketed(AfterMarker(fullReply.value))

\* the part of tail before a further marker, all of tail when it holds none
UpToNextMarker(tail) ==
  IF IndexOfFrom(tail, Marker, 1) = 0 THEN tail
  ELSE SubSeq(tail, 1, IndexOfFrom(tail, Marker, 1) - 1)

\* C13, amended: the reply text is <text> trimmed, and the suggestions are the
\* contents of the bracket-delimited tokens, in left-to-right order, of the part
\* of <tail> before any further marker, when that part holds such a token
C13_PrimaryExtractionFirstSegment ==
  (PrimaryFormatSent /\ Bracketed(UpToNextMarker(AfterMarker(fullReply.value))) # <<>>) =>
    /\ res.json.reply = Str(trim(BeforeMarker(fullReply.value)))
    /\ res.json.suggestions = Bracketed(UpToNextMarker(AfterMarker(fullReply.value)))

\* C13 witness: a reply in the primary format was cut at the marker, its text
\* trimmed, and two suggestions or more were read from its tail
C13_Witness ==
  /\ PrimaryFormatSent
  /\ IndexOfFrom(AfterMarker(fullReply.value), Marker, 1) = 0
  /\ Len(res.json.suggestions) >= 2
  /\ Len(res.json.reply.value) < Len(BeforeMarker(fullReply.value))

\* C14: the suggestions list of every buffered-mode result has at most 3 entries,
\* from the marker method and from the natural-language fallback alike
C14_AtMostThreeSuggestions ==
  (handler = "buffered" /\ pc = "done") => Len(res.json.suggestions) <= 3

\* the buffered handler has sent the result of a reply without a SUGGESTED:
\* marker and without text the fallback pattern matches
PlainReplySent ==
  /\ handler = "buffered"
  /\ pc = "done"
  /\ fullReply.kind = "string"
  /\ IndexOfFrom(fullReply.value, "SUGGESTED:", 1) = 0
  /\ questionMatch(fullReply.value) = Undefined

\* C15: for a reply without marker and without fallback match, the reply text is
\* the full reply exactly as received and the suggestions list is empty
C15_PlainReplyUntouched ==
  PlainReplySent =>
    /\ res.json.reply = fullReply
    /\ res.json.suggestions = <<>>

\* C16: with an empty corpus, or a category filter that leaves no passage, the
\* pipeline does not throw: the selection is empty, the context is the empty
\* string, and the completion request is built with the caller's input in it
C16_EmptyCorpusStillAsks ==
  (Selected /\ Len(filtered) = 0) =>
    /\ topRelevant = <<>>
    /\ RopeLen(topChunks) = 0
    /\ ~uncaught
    /\ res = NewResponse
    /\ Len(completionRequest.messages) > 0
    /\ RopeEndsWith(completionRequest.messages[Len(completionRequest.messages)].content,
                    EmbeddingInput(handler, body).value)

\* C16 witness: the corpus is empty and the completion request has been built
C16_Witness ==
  /\ Selected
  /\ embeddedDocs = <<>>
  /\ handler \in {"stream", "sse"}
  /\ Len(completionRequest.messages) > 0

\* C16 witness of the other case: the category filter left no passage of a
\* non-empty corpus
C16_FilteredOut ==
  /\ Selected
  /\ Len(embeddedDocs) > 0
  /\ Len(filtered) = 0

\* the place of passage d in the scored set
PlaceInScored(d) == CHOOSE i \in 1..Len(scored) : scored[i] = d

\* two scores are numbers and neither is above the other
SameScore(s, t) == ~IsNaN(s) /\ ~IsNaN(t) /\ ~ScoreGT(s, t) /\ ~ScoreGT(t, s)

HasSelected == completionRequest # NoRequest

\* C18: with requests in flight side by side, after any number of requests,
\* the corpus in memory is the array of passages read at the load, passage by
\* passage in the same order, and the selection of each request is one that
\* its own conversation, category and query vector give over that array
C18_CorpusUntouched ==
  /\ embeddedDocs = artifact.docs
  /\ HasSelected =>
       topRelevant \in SelectionsOver(handler, artifact.docs, body, queryVector)
  /\ peer.pc = "completing" =>
       peer.topRelevant \in SelectionsOver(handler, artifact.docs, peer.body, peer.queryVector)

\* both requests have made their selections over the three-passage corpus,
\* and the two selections differ
C18_Witness ==
  /\ Len(embeddedDocs) = 3
  /\ pc = "completing"
  /\ peer.pc = "completing"
  /\ topRelevant # <<>>
  /\ peer.topRelevant # <<>>
  /\ peer.topRelevant # topRelevant

\* the artifact is an array of passages, the format of the corpus
WellFormed == artifact.kind = "array"

\* C19: a request is handled only once the load has completed, and a process
\* whose corpus artifact is missing or malformed never listens for requests
C19_NoServiceWithoutCorpus ==
  /\ pc # "idle" => (server = "listening" /\ embeddedDocs = artifact.docs)
  /\ ~WellFormed => server # "listening"

\* C20: once the HTTP client has disconnected during the relay, no fragment
\* of the provider is consumed, nothing is written to the response, and the
\* provider's stream is let go of
C20_RelayStopsOnDisconnect ==
  [][client = "closed" =>
       /\ emitted' = emitted
       /\ wire' = wire
       /\ res'.written = res.written
       /\ upstream' # "open"]_vars

(***************************************************************************)
(* Progress.  Node's event loop runs every callback that is due, and a     *)
(* provider call settles: a step that can be taken is taken in the end.    *)
(***************************************************************************)
SpecFair == Init /\ [][Next]_vars /\ WF_vars(Next)

\* the request has passed the validation and the handler waits for a provider
PastValidation == pc \in {"embedding", "completing", "streaming"}

\* C21: a request that has passed the validation has its response ended in
\* the end, whatever the providers do: success, a failing embedding or
\* completion call, a non-success status, an absent body, the end of the
\* stream, or an error event of the stream after the handler has returned
C21_ResponseEventuallyEnded == PastValidation ~> res.ended

\* C22: in the relay of server-sent events, after the [DONE] line has been
\* processed or the response has been ended in another way, no text is
\* written to the response and the response is not ended once more, whatever
\* chunk or end event the provider's stream delivers afterwards
C22_NothingAfterEnd ==
  handler = "sse" => (res.lateWrites = 0 /\ res.lateEnds = 0)

\* the system-role message of the request sent to the completion provider:
\* the system field of the Claude request, or the first message of role system
SystemSent ==
  IF completionRequest.system.kind # "undefined" THEN completionRequest.system
  ELSE LET sys == SelectSeq(completionRequest.messages, LAMBDA m : m.role = "system")
       IN IF Len(sys) = 0 THEN Undefined ELSE Text(sys[1].content)

\* C23: in every handler the system message sent to the completion provider
\* is the system instruction the handler has built for the request
C23_SystemInstructionSent ==
  Selected => SystemSent = Text(systemPrompt(handler, body.userName))

\* the relay of server-sent events has seen the whole body of a successful reply
RelayComplete ==
  /\ handler = "sse"
  /\ replyOk
  /\ upstream = "ended"
  /\ wire = ""

\* C24: in the relay of server-sent events, however the bytes of the
\* provider's stream are cut into chunks, the writes to the response are the
\* delta texts of the data lines before the [DONE] line or the end of the
\* stream, in order: a line cut by a chunk boundary and a last line without a
\* newline included
C24_WritesIndependentOfChunks ==
  RelayComplete => res.written = TextFragments(emitted)

\* the query words of the request and the keyword score they give a passage
LexWords == QueryWords(UserInput(body).value)

LexScore(doc) == KeywordScore(doc, LexWords)

\* the places of the filtered set whose passage has a positive keyword score
PositivePlaces == {i \in 1..Len(filtered) : LexScore(filtered[i]) > 0}

\* the place of a passage in the filtered set
PlaceInFiltered(doc) == CHOOSE i \in 1..Len(filtered) : filtered[i] = doc

AtMost5(n) == IF n < 5 THEN n ELSE 5

\* the lexical selection has been made
LexicalSelected == Selected /\ handler = "sse"

\* C25: the lexical selection has at most 5 passages, all of the filtered
\* set.  With a passage of positive keyword score it is the first 5 passages
\* of positive score in non-increasing score order (equal scores in corpus
\* order) and holds no passage of score zero; with none it is the first 5
\* passages of the filtered set in corpus order
C25_LexicalSelection ==
  LexicalSelected =>
    /\ Len(topRelevant) <= 5
    /\ \A k \in 1..Len(topRelevant) : \E i \in 1..Len(filtered) : filtered[i] = topRelevant[k]
    /\ IF PositivePlaces # {}
       THEN /\ Len(topRelevant) = AtMost5(Cardinality(PositivePlaces))
            /\ \A k \in 1..Len(topRelevant) : LexScore(topRelevant[k]) > 0
            /\ \A k, l \in 1..Len(topRelevant) :
                 k < l =>
                   \/ LexScore(topRelevant[k]) > LexScore(topRelevant[l])
                   \/ /\ LexScore(topRelevant[k]) = LexScore(topRelevant[l])
                      /\ PlaceInFiltered(topRelevant[k]) < PlaceInFiltered(topRelevant[l])
            /\ \A i \in PositivePlaces :
                 (\A k \in 1..Len(topRelevant) : topRelevant[k] # filtered[i]) =>
                   \A k \in 1..Len(topRelevant) :
                     \/ LexScore(topRelevant[k]) > LexScore(filtered[i])
                     \/ /\ LexScore(topRelevant[k]) = LexScore(filtered[i])
                        /\ PlaceInFiltered(topRelevant[k]) < i
       ELSE /\ Len(topRelevant) = AtMost5(Len(filtered))
            /\ \A k \in 1..Len(topRelevant) : topRelevant[k] = filtered[k]

\* more than five passages score above zero, with different scores, and the
\* selection does not follow the corpus order
C25_Witness ==
  /\ LexicalSelected
  /\ Cardinality(PositivePlaces) > 5
  /\ \E k, l \in 1..Len(topRelevant) :
       /\ k < l
       /\ PlaceInFiltered(topRelevant[k]) > PlaceInFiltered(topRelevant[l])

\* more than five passages are left by the filter and none scores above zero
C25_NonePositive ==
  /\ LexicalSelected
  /\ Len(filtered) > 5
  /\ PositivePlaces = {}
  /\ Len(topRelevant) = 5

\* the handlers with the category filter of server.js 51-56 and 185-190
FilterHandlers == {"stream", "buffered", "reader", "initial"}

\* the places of the corpus whose passage has a tag list with the category in
\* it, both taken in lower case
CategoryPlaces ==
  {i \in 1..Len(embeddedDocs) :
     /\ embeddedDocs[i].tags.kind = "array"
     /\ \E t \in 1..Len(embeddedDocs[i].tags.items) :
          toLowerCase(embeddedDocs[i].tags.items[t]) = toLowerCase(body.industry.value)}

\* C26: without a category (absent or the empty string) every passage of the
\* corpus is scored; with a category the scored passages are exactly those
\* whose tag list holds the category in lower case, in corpus order, a passage
\* without tags is left out, and no error is raised
C26_CategoryFilterEdges ==
  (Selected /\ handler \in FilterHandlers) =>
    /\ ~res.ended
    /\ Len(scored) = Len(filtered)
    /\ IF body.industry \in {Undefined, Str("")}
       THEN filtered = embeddedDocs
       ELSE /\ Len(filtered) = Cardinality(CategoryPlaces)
            /\ \A k \in 1..Len(filtered) : filtered[k] = embeddedDocs[Ascending(CategoryPlaces)[k]]
            /\ \A k \in 1..Len(filtered) : filtered[k].tags.kind = "array"

\* a category is given, the corpus holds a passage without tags, one with the
\* category in capitals and one with a tag the category is only a part of
C26_Witness ==
  /\ Selected
  /\ handler = "buffered"
  /\ body.industry = Str("Banking")
  /\ \E i \in 1..Len(embeddedDocs) : embeddedDocs[i].tags = Undefined
  /\ \E i \in 1..Len(embeddedDocs) : embeddedDocs[i].tags = Arr(<<"investment-banking">>)
  /\ \E k \in 1..Len(filtered) : filtered[k].tags = Arr(<<"Banking", "Retail">>)
  /\ Len(filtered) < Len(embeddedDocs)

\* the category is the empty string and every passage is scored
C26_EmptyCategory ==
  /\ Selected
  /\ handler = "stream"
  /\ body.industry = Str("")
  /\ Len(scored) = Len(embeddedDocs)
  /\ \E i \in 1..Len(embeddedDocs) : embeddedDocs[i].tags = Undefined

\* the buffered handler has sent suggestions read from the bracket-delimited
\* tokens after a SUGGESTED: marker
MarkerMethodSent ==
  /\ handler = "buffered"
  /\ pc = "done"
  /\ fullReply.kind = "string"
  /\ IndexOfFrom(fullReply.value, "SUGGESTED:", 1) > 0
  /\ Bracketed(SubSeq(fullReply.value, IndexOfFrom(fullReply.value, "SUGGESTED:", 1),
                      Len(fullReply.value))) # <<>>
  /\ res.json.suggestions # <<>>

\* C27: a suggestion returned by the marker method neither begins nor ends
\* with a whitespace character and holds no bracket
C27_SuggestionsTrimmed ==
  MarkerMethodSent =>
    \A k \in 1..Len(res.json.suggestions) :
      LET s == res.json.suggestions[k]
      IN /\ s # "" => (~IsSpace(CharAt(s, 1)) /\ ~IsSpace(CharAt(s, Len(s))))
         /\ ~StrIncludes(s, "[")
         /\ ~StrIncludes(s, "]")
=============================================================================
